---- MODULE Spec2Model ----
(***************************************************************************)
(* The interval-scanning cursor of curves/src/span_cursor.rs: a collection *)
(* of spans, two sorted views of it, the active list, the current window   *)
(* and the two cached indices, driven by Cursor::new / Cursor::empty and   *)
(* Cursor::advance_to.                                                     *)
(*                                                                         *)
(* Vec indices keep the source's 0-based values; At(v, i) reads v[i].      *)
(* Option<T> is <<>> (None) or <<t>> (Some(t)).                            *)
(***************************************************************************)
EXTENDS Integers, Sequences, FiniteSets, Bags, TLC

\* Times are 0..MaxTime; the input holds at most MaxSpans spans.
MaxTime == 2
MaxSpans == 2

Time == 0 .. MaxTime

None == <<>>
Some(t) == <<t>>
OptionTime == {None} \cup {Some(t) : t \in Time}

\* struct Span { start, end: Option<T>, id }
Span == [start : Time, end : OptionTime, id : 0 .. MaxSpans - 1]

At(v, i) == v[i + 1]

----------------------------------------------------------------------------
\* enum MaybeInfinite<T> { Finite(T), Infinite }

Finite(t) == [tag |-> "Finite", val |-> t]
Infinite == [tag |-> "Infinite"]

\* impl From<Option<T>> for MaybeInfinite<T>
MaybeInfinite_from(x) == IF x = None THEN Infinite ELSE Finite(x[1])

\* the order of Option<T>, where None comes before every Some
MaybeInfinite_cmp_option_order(a, b) ==
    IF a.tag = "Finite" /\ b.tag = "Finite"
    THEN (IF a.val < b.val THEN "Less" ELSE IF a.val = b.val THEN "Equal" ELSE "Greater")
    ELSE IF a.tag = "Finite" THEN "Greater"
    ELSE IF b.tag = "Finite" THEN "Less"
    ELSE "Equal"

\* #[derive(Ord)]: variants in declaration order, Finite payloads compared.
MaybeInfinite_cmp(a, b) ==
    IF a.tag = "Finite" /\ b.tag = "Finite"
    THEN (IF a.val < b.val THEN "Less" ELSE IF a.val = b.val THEN "Equal" ELSE "Greater")
    ELSE IF a.tag = "Finite" THEN "Less"
    ELSE IF b.tag = "Finite" THEN "Greater"
    ELSE "Equal"

\* impl PartialEq<T> for MaybeInfinite<T>
MaybeInfinite_eq_T(a, t) == IF a.tag = "Finite" THEN a.val = t ELSE FALSE

\* impl PartialOrd<T> for MaybeInfinite<T>
MaybeInfinite_partial_cmp_T(a, t) ==
    IF a.tag = "Finite"
    THEN (IF a.val < t THEN "Less" ELSE IF a.val = t THEN "Equal" ELSE "Greater")
    ELSE "Greater"

\* `a >= t` through partial_cmp
MaybeInfinite_ge_T(a, t) == MaybeInfinite_partial_cmp_T(a, t) \in {"Equal", "Greater"}

\* is_active with the window's high end taken as exclusive
is_active_exclusive_high(sp, start_time, end_time) ==
    sp.start < end_time /\ MaybeInfinite_ge_T(MaybeInfinite_from(sp.end), start_time)

\* Span::is_active
is_active(sp, start_time, end_time) ==
    sp.start <= end_time /\ MaybeInfinite_ge_T(MaybeInfinite_from(sp.end), start_time)

----------------------------------------------------------------------------
\* The two keys Cursor sorts and searches by: |sp| sp.start ("start") and
\* |sp| MaybeInfinite::from(sp.end) ("end").
sort_key(by, sp) == IF by = "start" THEN sp.start ELSE MaybeInfinite_from(sp.end)

\* Ord::cmp on two keys of the same kind
key_cmp(by, a, b) ==
    IF by = "start"
    THEN (IF a < b THEN "Less" ELSE IF a = b THEN "Equal" ELSE "Greater")
    ELSE MaybeInfinite_cmp(a, b)

\* key(a) < key(b)
sort_key_lt(by, a, b) == key_cmp(by, sort_key(by, a), sort_key(by, b)) = "Less"

\* Vec::sort_by_key is a stable sort: x, the last element of the input so
\* far, goes behind every element whose key is <= its own.
InsertStable(v, x, by) ==
    LET n == Cardinality({i \in 1 .. Len(v) : ~sort_key_lt(by, x, v[i])})
    IN  SubSeq(v, 1, n) \o <<x>> \o SubSeq(v, n + 1, Len(v))

\* no sort at all: the list is left in input order
sort_by_key_unsorted(v, by) == v

RECURSIVE sort_by_key(_, _)
sort_by_key(v, by) ==
    IF v = <<>> THEN <<>>
    ELSE InsertStable(sort_by_key(SubSeq(v, 1, Len(v) - 1), by), v[Len(v)], by)

\* binary_search_by_key whose Err arm is one past the insertion point
binary_search_by_key_err_off_by_one(v, k, by) ==
    LET hits == {i \in 0 .. Len(v) - 1 : key_cmp(by, sort_key(by, At(v, i)), k) = "Equal"}
        below == {i \in 0 .. Len(v) - 1 : key_cmp(by, sort_key(by, At(v, i)), k) = "Less"}
    IN  IF hits # {}
        THEN {[ok |-> TRUE, i |-> i] : i \in hits}
        ELSE {[ok |-> FALSE, i |-> Cardinality(below) + 1]}

\* slice::binary_search_by_key on a sorted slice: Ok(i) for any i whose key
\* equals k (which one is unspecified), else Err(insertion point).
binary_search_by_key(v, k, by) ==
    LET hits == {i \in 0 .. Len(v) - 1 : key_cmp(by, sort_key(by, At(v, i)), k) = "Equal"}
        below == {i \in 0 .. Len(v) - 1 : key_cmp(by, sort_key(by, At(v, i)), k) = "Less"}
    IN  IF hits # {}
        THEN {[ok |-> TRUE, i |-> i] : i \in hits}
        ELSE {[ok |-> FALSE, i |-> Cardinality(below)]}

----------------------------------------------------------------------------
\* struct Cursor

\* the scan of Cursor::new stopping, instead of going on, at a span that
\* ended before start_time: it keeps the longest prefix of active spans
new_active_break_on_ended(spans_start_, i, start_time, end_time) ==
    LET n == Cardinality({j \in 1 .. Len(spans_start_) :
                 \A k \in 1 .. j : is_active(spans_start_[k], start_time, end_time)})
    IN  SubSeq(spans_start_, 1, n)

\* Cursor::new, the scan that fills `active` (breaks at the first start > end_time)
RECURSIVE new_active(_, _, _, _)
new_active(spans_start_, i, start_time, end_time) ==
    IF i >= Len(spans_start_) THEN <<>>
    ELSE LET sp == At(spans_start_, i)
         IN  IF sp.start > end_time THEN <<>>
             ELSE (IF MaybeInfinite_cmp(MaybeInfinite_from(sp.end), Finite(start_time))
                        \in {"Equal", "Greater"}
                   THEN <<sp>> ELSE <<>>)
                  \o new_active(spans_start_, i + 1, start_time, end_time)

\* reset_next_start_idx's loop without its `i < len` test: a run of equal
\* starts that reaches the end of the list carries the index past it
RECURSIVE skip_equal_starts_no_bound(_, _, _)
skip_equal_starts_no_bound(v, i, cur) ==
    IF i >= Len(v) THEN i + 1
    ELSE IF At(v, i).start = cur THEN skip_equal_starts_no_bound(v, i + 1, cur) ELSE i

\* reset_next_start_idx's loop not run: the index the search returned is kept
skip_equal_starts_not(v, i, cur) == i

\* Cursor::reset_next_start_idx, the Ok arm's loop
RECURSIVE skip_equal_starts(_, _, _)
skip_equal_starts(v, i, cur) ==
    IF i < Len(v) /\ At(v, i).start = cur THEN skip_equal_starts(v, i + 1, cur) ELSE i

\* Cursor::reset_next_start_idx: the cursors it can leave (one per result
\* the binary search may return)
reset_next_start_idx(c) ==
    LET cur == c.current[2]
    IN  {[c EXCEPT !.next_start_idx =
              IF r.ok THEN skip_equal_starts(c.spans_start, r.i, cur) ELSE r.i]
         : r \in binary_search_by_key(c.spans_start, cur, "start")}

\* reset_next_end_idx's loop not run: the index the search returned is kept
skip_equal_ends_not(v, i, cur) == i

\* Cursor::reset_next_end_idx, the Ok arm's loop
RECURSIVE skip_equal_ends(_, _, _)
skip_equal_ends(v, i, cur) ==
    IF i > 0 /\ MaybeInfinite_cmp(MaybeInfinite_from(At(v, i - 1).end), cur) = "Equal"
    THEN skip_equal_ends(v, i - 1, cur) ELSE i

\* Cursor::reset_next_end_idx
reset_next_end_idx(c) ==
    LET cur == Finite(c.current[1])
    IN  {[c EXCEPT !.next_end_idx =
              IF r.ok THEN skip_equal_ends(c.spans_end, r.i, cur) ELSE r.i]
         : r \in binary_search_by_key(c.spans_end, cur, "end")}

\* Cursor::new
new(spans, start_time, end_time) ==
    LET ss == sort_by_key(spans, "start")
        se == sort_by_key(spans, "end")
        ret == [spans_start |-> ss,
                spans_end |-> se,
                active |-> new_active(ss, 0, start_time, end_time),
                next_start_idx |-> 0,
                next_end_idx |-> 0,
                current |-> <<start_time, end_time>>]
    IN  UNION {reset_next_end_idx(c1) : c1 \in reset_next_start_idx(ret)}

\* Cursor::empty
empty(time) ==
    [spans_start |-> <<>>,
     spans_end |-> <<>>,
     active |-> <<>>,
     next_start_idx |-> 0,
     next_end_idx |-> 0,
     current |-> <<time, time>>]

\* current() returning the pair with its two ends exchanged
current_of_swapped(c) == <<c.current[2], c.current[1]>>

\* Cursor::current
current_of(c) == c.current

\* the forward loop admitting only spans with start < end_time
RECURSIVE forward_walk_exclusive(_, _)
forward_walk_exclusive(c, end_time) ==
    IF c.next_start_idx < Len(c.spans_start)
       /\ At(c.spans_start, c.next_start_idx).start < end_time
    THEN forward_walk_exclusive(
             [c EXCEPT !.active = Append(@, At(c.spans_start, c.next_start_idx)),
                       !.next_start_idx = @ + 1], end_time)
    ELSE c

\* Cursor::advance_to, the loop of the `end_time > old_end` arm
RECURSIVE forward_walk(_, _)
forward_walk(c, end_time) ==
    IF c.next_start_idx < Len(c.spans_start)
       /\ At(c.spans_start, c.next_start_idx).start <= end_time
    THEN forward_walk([c EXCEPT !.active = Append(@, At(c.spans_start, c.next_start_idx)),
                                !.next_start_idx = @ + 1], end_time)
    ELSE c

\* the backward loop admitting only spans with end > start_time
RECURSIVE backward_walk_exclusive(_, _)
backward_walk_exclusive(c, start_time) ==
    IF c.next_end_idx > 0
       /\ MaybeInfinite_partial_cmp_T(
              MaybeInfinite_from(At(c.spans_end, c.next_end_idx - 1).end), start_time)
          = "Greater"
    THEN backward_walk_exclusive(
             [c EXCEPT !.active = Append(@, At(c.spans_end, c.next_end_idx - 1)),
                       !.next_end_idx = @ - 1], start_time)
    ELSE c

\* Cursor::advance_to, the loop of the `start_time < old_start` arm
RECURSIVE backward_walk(_, _)
backward_walk(c, start_time) ==
    IF c.next_end_idx > 0
       /\ MaybeInfinite_ge_T(MaybeInfinite_from(At(c.spans_end, c.next_end_idx - 1).end),
                             start_time)
    THEN backward_walk([c EXCEPT !.active = Append(@, At(c.spans_end, c.next_end_idx - 1)),
                                 !.next_end_idx = @ - 1], start_time)
    ELSE c

\* The element reads of a call: the indices each loop hands to
\* Vec::index, in the order of the code's tests (a read is made only when
\* the test in front of it has passed; a read out of range panics and ends
\* the loop).

\* spans_start[i] in reset_next_start_idx's loop
RECURSIVE skip_equal_starts_reads(_, _, _)
skip_equal_starts_reads(v, i, cur) ==
    IF i < Len(v)
    THEN {i} \cup (IF At(v, i).start = cur
                   THEN skip_equal_starts_reads(v, i + 1, cur) ELSE {})
    ELSE {}

\* spans_end[i - 1] in reset_next_end_idx's loop
RECURSIVE skip_equal_ends_reads(_, _, _)
skip_equal_ends_reads(v, i, cur) ==
    IF i > 0
    THEN {i - 1} \cup (IF i - 1 < Len(v)
                          /\ MaybeInfinite_cmp(MaybeInfinite_from(At(v, i - 1).end), cur)
                             = "Equal"
                       THEN skip_equal_ends_reads(v, i - 1, cur) ELSE {})
    ELSE {}

\* spans_start[next_start_idx] in advance_to's forward loop
RECURSIVE forward_walk_reads(_, _, _)
forward_walk_reads(v, i, end_time) ==
    IF i < Len(v)
    THEN {i} \cup (IF At(v, i).start <= end_time
                   THEN forward_walk_reads(v, i + 1, end_time) ELSE {})
    ELSE {}

\* spans_end[next_end_idx - 1] in advance_to's backward loop
RECURSIVE backward_walk_reads(_, _, _)
backward_walk_reads(v, i, start_time) ==
    IF i > 0
    THEN {i - 1} \cup (IF i - 1 < Len(v)
                          /\ MaybeInfinite_ge_T(MaybeInfinite_from(At(v, i - 1).end),
                                                start_time)
                       THEN backward_walk_reads(v, i - 1, start_time) ELSE {})
    ELSE {}

\* every index advance_to(start_time, end_time) reads spans_start at
advance_to_reads_start(c, start_time, end_time) ==
    IF end_time > c.current[2]
    THEN forward_walk_reads(c.spans_start, c.next_start_idx, end_time)
    ELSE UNION {IF r.ok THEN skip_equal_starts_reads(c.spans_start, r.i, end_time) ELSE {}
                : r \in binary_search_by_key(c.spans_start, end_time, "start")}

\* every index advance_to(start_time, end_time) reads spans_end at
advance_to_reads_end(c, start_time, end_time) ==
    IF start_time < c.current[1]
    THEN backward_walk_reads(c.spans_end, c.next_end_idx, start_time)
    ELSE UNION {IF r.ok THEN skip_equal_ends_reads(c.spans_end, r.i, Finite(start_time))
                        ELSE {}
                : r \in binary_search_by_key(c.spans_end, Finite(start_time), "end")}

\* an eviction that also turns the list around
retain_active_reversed(c, start_time, end_time) ==
    LET kept == SelectSeq(c.active, LAMBDA sp : is_active(sp, start_time, end_time))
    IN  [c EXCEPT !.active = [i \in 1 .. Len(kept) |-> kept[Len(kept) + 1 - i]]]

\* retain with the span's end taken as exclusive
retain_active_exclusive_end(c, start_time, end_time) ==
    [c EXCEPT !.active = SelectSeq(@, LAMBDA sp :
         sp.start <= end_time /\ (sp.end = None \/ sp.end[1] > start_time))]

\* retain that evicts on the start condition alone
retain_active_start_only(c, start_time, end_time) ==
    [c EXCEPT !.active = SelectSeq(@, LAMBDA sp : sp.start <= end_time)]

\* Vec::retain(|sp| sp.is_active(start_time, end_time))
retain_active(c, start_time, end_time) ==
    [c EXCEPT !.active = SelectSeq(@, LAMBDA sp : is_active(sp, start_time, end_time))]

\* Cursor::advance_to, `if end_time > old_end { .. } else { .. }`, run on
\* the cursor that already holds the new window
forward_pass(c0, old_end, end_time) ==
    IF end_time > old_end
    THEN {forward_walk(c0, end_time)}
    ELSE reset_next_start_idx(c0)

\* Cursor::advance_to, `if start_time < old_start { .. } else { .. }`
backward_pass(c1, old_start, start_time) ==
    IF start_time < old_start
    THEN {backward_walk(c1, start_time)}
    ELSE reset_next_end_idx(c1)

\* advance_to with an assertion start_time <= end_time in front: no cursor
\* is returned for an inverted window
advance_to_asserting(c, start_time, end_time) ==
    LET old_start == c.current[1]
        old_end == c.current[2]
        c0 == [c EXCEPT !.current = <<start_time, end_time>>]
        fwd == forward_pass(c0, old_end, end_time)
        bwd == UNION {backward_pass(c1, old_start, start_time) : c1 \in fwd}
    IN  IF start_time > end_time
        THEN {}
        ELSE {retain_active(c2, start_time, end_time) : c2 \in bwd}

\* Cursor::advance_to: the cursors the call can leave
advance_to(c, start_time, end_time) ==
    LET old_start == c.current[1]
        old_end == c.current[2]
        c0 == [c EXCEPT !.current = <<start_time, end_time>>]
        fwd == forward_pass(c0, old_end, end_time)
        bwd == UNION {backward_pass(c1, old_start, start_time) : c1 \in fwd}
    IN  {retain_active(c2, start_time, end_time) : c2 \in bwd}

\* active_ids reading the start-sorted view instead of active
active_ids_of_spans_start(c) == [i \in 1 .. Len(c.spans_start) |-> c.spans_start[i].id]

\* Cursor::active_ids
active_ids(c) == [i \in 1 .. Len(c.active) |-> c.active[i].id]

\* Cursor::active_spans
active_spans(c) == [i \in 1 .. Len(c.active) |-> c.active[i]]

\* is_finished looking at active alone
is_finished_active_only(c) == c.active = <<>>

\* is_finished comparing the end-side index instead of the start-side one
is_finished_end_idx(c) == c.active = <<>> /\ c.next_end_idx = Len(c.spans_end)

\* Cursor::is_finished
is_finished(c) == c.active = <<>> /\ c.next_start_idx = Len(c.spans_start)

\* The four queries, each with the value it returns and the cursor it leaves
\* (all take &self).
Queries == {"current", "active_ids", "active_spans", "is_finished"}

\* active_ids and active_spans draining active as they yield (single-use)
query_draining(q, c) ==
    [ret |-> CASE q = "current" -> current_of(c)
               [] q = "active_ids" -> active_ids(c)
               [] q = "active_spans" -> active_spans(c)
               [] q = "is_finished" -> is_finished(c),
     self |-> IF q \in {"active_ids", "active_spans"}
              THEN [c EXCEPT !.active = <<>>] ELSE c]

query(q, c) ==
    [ret |-> CASE q = "current" -> current_of(c)
               [] q = "active_ids" -> active_ids(c)
               [] q = "active_spans" -> active_spans(c)
               [] q = "is_finished" -> is_finished(c),
     self |-> c]

----------------------------------------------------------------------------
\* The state: the fields of one Cursor; the span list its constructor was
\* given; whether advance_to has been called on it yet; and, where a second
\* Cursor is built from a reordering of the same list, that Cursor (NoCursor
\* where there is none).

VARIABLES input, spans_start, spans_end, active, current, next_start_idx,
          next_end_idx, last_op, twin

vars == <<input, spans_start, spans_end, active, current, next_start_idx,
          next_end_idx, last_op, twin>>

NoCursor == <<>>

Self ==
    [spans_start |-> spans_start,
     spans_end |-> spans_end,
     active |-> active,
     next_start_idx |-> next_start_idx,
     next_end_idx |-> next_end_idx,
     current |-> current]

Becomes(c) ==
    /\ spans_start' = c.spans_start
    /\ spans_end' = c.spans_end
    /\ active' = c.active
    /\ next_start_idx' = c.next_start_idx
    /\ next_end_idx' = c.next_end_idx
    /\ current' = c.current

Starts(c) ==
    /\ spans_start = c.spans_start
    /\ spans_end = c.spans_end
    /\ active = c.active
    /\ next_start_idx = c.next_start_idx
    /\ next_end_idx = c.next_end_idx
    /\ current = c.current

\* The span lists a caller passes: any starts and ends (an end may lie before
\* its start: Span has no constructor that refuses it); the id of a span is
\* its position in the list, as tests::cursor numbers them. Cursor never
\* inspects an id.
SpanLists ==
    UNION {{[i \in 1 .. n |-> [start |-> v[i][1], end |-> v[i][2], id |-> i - 1]] :
               v \in [1 .. n -> Time \X OptionTime]} : n \in 0 .. MaxSpans}

Windows == {w \in Time \X Time : w[1] <= w[2]}

Reorderings(v) ==
    {[i \in 1 .. Len(v) |-> v[p[i]]] :
        p \in {q \in [1 .. Len(v) -> 1 .. Len(v)] :
                 \A i, j \in 1 .. Len(v) : i # j => q[i] # q[j]}}

\* let c = Cursor::new(spans, low, high), with low <= high
InitNew ==
    \E spans \in SpanLists, w \in Windows :
        /\ input = spans
        /\ \E c \in new(spans, w[1], w[2]) : Starts(c)
        /\ last_op = "new"
        /\ twin = NoCursor

\* let c = Cursor::empty(time)
InitEmpty ==
    \E time \in Time :
        /\ input = <<>>
        /\ Starts(empty(time))
        /\ last_op = "empty"
        /\ twin = NoCursor

Init == InitNew \/ InitEmpty

\* c.advance_to(low, high)
AdvanceTo(low, high) ==
    /\ \E c \in advance_to(Self, low, high) : Becomes(c)
    /\ last_op' = "advance_to"
    /\ UNCHANGED input

Next == \E w \in Windows : AdvanceTo(w[1], w[2]) /\ UNCHANGED twin

Spec == Init /\ [][Next]_vars

\* Two cursors: Cursor::new on a span list and on a reordering of it, with
\* the same initial window, then the same advance_to calls on both.
InitPerm ==
    \E spans \in SpanLists, w \in Windows :
        /\ input = spans
        /\ \E c \in new(spans, w[1], w[2]) : Starts(c)
        /\ last_op = "new"
        /\ \E other \in Reorderings(spans) : twin \in new(other, w[1], w[2])

NextPerm ==
    \E w \in Windows : AdvanceTo(w[1], w[2]) /\ twin' \in advance_to(twin, w[1], w[2])

SpecPerm == InitPerm /\ [][NextPerm]_vars

\* A caller that does not keep low <= high: advance_to takes any two times.
NextAny == \E low, high \in Time : AdvanceTo(low, high) /\ UNCHANGED twin

SpecAny == Init /\ [][NextAny]_vars

\* Two cursors built from the same span list and window and given the same
\* advance_to calls; each resolves its binary searches on its own.
InitTwin ==
    \E spans \in SpanLists, w \in Windows :
        /\ input = spans
        /\ \E c \in new(spans, w[1], w[2]) : Starts(c)
        /\ last_op = "new"
        /\ twin \in new(spans, w[1], w[2])

SpecTwin == InitTwin /\ [][NextPerm]_vars

\* c.current(), c.active_ids(), c.active_spans() or c.is_finished()
Query ==
    \E q \in Queries :
        /\ Becomes(query(q, Self).self)
        /\ last_op' = "query"
        /\ UNCHANGED <<input, twin>>

\* A caller that also queries the cursor between its advance_to calls.
NextQuery == Next \/ Query

SpecQuery == Init /\ [][NextQuery]_vars

\* Two cursors built from the same span list, each moved on its own.

\* the second cursor's advance_to writing into the first cursor's active
\* list as well (one buffer shared by both)
AdvanceTwin_shared_active(low, high) ==
    /\ twin' \in advance_to(twin, low, high)
    /\ active' = twin'.active
    /\ UNCHANGED <<input, spans_start, spans_end, current, next_start_idx,
                   next_end_idx, last_op>>

\* other.advance_to(low, high): `&mut self` reaches the fields of that
\* cursor only; new gave each cursor its own vectors
AdvanceTwin(low, high) ==
    /\ twin' \in advance_to(twin, low, high)
    /\ UNCHANGED <<input, spans_start, spans_end, active, current, next_start_idx,
                   next_end_idx, last_op>>

AdvanceSelf(low, high) == AdvanceTo(low, high) /\ UNCHANGED twin

NextPair ==
    \E w \in Windows : AdvanceSelf(w[1], w[2]) \/ AdvanceTwin(w[1], w[2])

SpecPair == InitTwin /\ [][NextPair]_vars

\* The times a forward-only driver moves through: one step past the last
\* time a span can hold, so that the window can leave every span behind.
DriverTime == 0 .. MaxTime + 1

\* while !c.is_finished() { c.advance_to(low, high) } with low strictly
\* increasing and high not decreasing
Drive ==
    /\ ~is_finished(Self)
    /\ \E low, high \in DriverTime :
          /\ low <= high
          /\ low > current[1]
          /\ high >= current[2]
          /\ AdvanceTo(low, high)
    /\ UNCHANGED twin

NextDriver == Drive

\* The driver keeps calling as long as its loop condition holds.
SpecDriver == Init /\ [][NextDriver]_vars /\ WF_vars(Drive)

----------------------------------------------------------------------------
\* What the claims speak of, stated without the cursor's own operators.

Range(v) == {v[i] : i \in 1 .. Len(v)}

\* the number of occurrences of x in the list v
Count(v, x) == Cardinality({i \in 1 .. Len(v) : v[i] = x})

SameBag(v, w) == \A x \in Range(v) \cup Range(w) : Count(v, x) = Count(w, x)

\* s.start <= high and (s.end is absent or s.end >= low)
Overlaps(sp, low, high) == sp.start <= high /\ (sp.end = None \/ sp.end[1] >= low)

low_ == current[1]
high_ == current[2]

\* every span of the list has no end, or start <= end
WellFormed(v) == \A sp \in Range(v) : sp.end = None \/ sp.start <= sp.end[1]

\* C1: after Cursor::new and after every advance_to(low, high) with
\* low <= high, an input span is in active if and only if it overlaps the
\* window, and active holds nothing but input spans.
C1_ActiveIffOverlaps ==
    /\ \A sp \in Range(input) : (sp \in Range(active)) <=> Overlaps(sp, low_, high_)
    /\ Range(active) \subseteq Range(input)

\* advance_to has run; one input span is active and another is not
C1_Witness ==
    /\ last_op = "advance_to"
    /\ \E sp \in Range(input) : sp \in Range(active)
    /\ \E sp \in Range(input) : sp \notin Range(active)

\* C2: for input spans with start <= end (or no end), every span value
\* occurs in active as often as in the input if it overlaps the window, and
\* not at all otherwise.
C2_NoDuplicates ==
    WellFormed(input) =>
        \A sp \in Range(input) \cup Range(active) :
            Count(active, sp) = IF Overlaps(sp, low_, high_) THEN Count(input, sp) ELSE 0

\* advance_to has run on a well-formed input of two spans or more that
\* share a start, all of them active
C2_Witness ==
    /\ last_op = "advance_to"
    /\ WellFormed(input)
    /\ Len(input) >= 2
    /\ \E i, j \in 1 .. Len(input) : i # j /\ input[i].start = input[j].start
    /\ Len(active) = Len(input)

\* C3: Cursor::new(spans, low, high) leaves the window (low, high) and an
\* active list that is the start-sorted input filtered by the overlap
\* predicate: the early stop skips no overlapping span.
C3_NewFiltersAll ==
    \A c \in new(input, low_, high_) :
        /\ c.current = <<low_, high_>>
        /\ c.active = SelectSeq(c.spans_start, LAMBDA sp : Overlaps(sp, low_, high_))
        /\ \A sp \in Range(input) :
              Count(c.active, sp) = IF Overlaps(sp, low_, high_) THEN Count(input, sp) ELSE 0
        /\ last_op = "new" => c = Self

\* a freshly built cursor whose scan stopped early (the span listed first
\* in the input starts after high) and admitted the span listed behind it
C3_Witness ==
    /\ last_op = "new"
    /\ Len(input) >= 2
    /\ input[1].start > high_
    /\ active # <<>>

\* the index of the first element of v satisfying P, Len(v) if there is none
FirstIndex(v, P(_)) ==
    LET hits == {i \in 0 .. Len(v) - 1 : P(At(v, i))}
    IN  IF hits = {} THEN Len(v) ELSE CHOOSE i \in hits : \A j \in hits : i <= j

\* C4: next_start_idx is the index in spans_start of the first span with
\* start > window.high (the length if there is none).
C4_NextStartIdx ==
    next_start_idx = FirstIndex(spans_start, LAMBDA sp : sp.start > high_)

\* advance_to has run; two spans start exactly at window.high and a later
\* one starts after it
C4_Witness ==
    /\ last_op = "advance_to"
    /\ Cardinality({i \in 1 .. Len(spans_start) : spans_start[i].start = high_}) >= 2
    /\ next_start_idx >= 2

\* C5: next_end_idx is the index in spans_end of the first span whose end
\* (absent = +infinity) is >= window.low (the length if there is none).
C5_NextEndIdx ==
    next_end_idx = FirstIndex(spans_end, LAMBDA sp : sp.end = None \/ sp.end[1] >= low_)

\* advance_to has run; two spans end exactly at window.low and the index
\* rests on the first of them
C5_Witness ==
    /\ last_op = "advance_to"
    /\ Cardinality({i \in 1 .. Len(spans_end) : spans_end[i].end = Some(low_)}) >= 2
    /\ next_end_idx < Len(spans_end) - 1
    /\ At(spans_end, next_end_idx).end = Some(low_)

\* C6: where next_end_idx is a valid index of spans_end, the span at that
\* index is a member of active.
C6_NextEndIsActive ==
    next_end_idx < Len(spans_end) => At(spans_end, next_end_idx) \in Range(active)

\* C7: advance_to to a window forward of the current one (low' >= low,
\* high' >= high) followed by advance_to back to the current one leaves
\* active with the same spans in the same multiplicities.
C7_RoundTrip ==
    \A w \in Windows :
        (w[1] >= low_ /\ w[2] >= high_) =>
            \A c1 \in advance_to(Self, w[1], w[2]) :
                \A c2 \in advance_to(c1, low_, high_) : SameBag(c2.active, active)

\* C7 for inputs whose spans all have start <= end (or no end)
C7_RoundTripWellFormed == WellFormed(input) => C7_RoundTrip

\* C8: advance_to(low, high) with (low, high) = current() leaves active, the
\* window and both indices as they were.
C8_Idempotent ==
    \A c \in advance_to(Self, low_, high_) : c = Self

\* advance_to has run and left active spans, among them two that start
\* exactly at window.high and one that ends exactly at window.low
C8_Witness ==
    /\ last_op = "advance_to"
    /\ Cardinality({i \in 1 .. Len(active) : active[i].start = high_}) >= 2
    /\ \E sp \in Range(active) : sp.end = Some(low_)

\* C9: a cursor built from a span list and one built from any reordering
\* of it, given the same initial window and the same advance_to calls, hold
\* the same spans in active, each as often, after construction and after
\* every call.
C9_OrderIndependent ==
    twin # NoCursor => SameBag(active, twin.active)

\* both cursors have been advanced; the reordering changed the start-sorted
\* view (a tie in start) and the two active lists hold their spans in a
\* different order
C9_Witness ==
    /\ twin # NoCursor
    /\ last_op = "advance_to"
    /\ twin.spans_start # spans_start
    /\ Len(active) >= 2
    /\ twin.active # active

NoOpenEnded == \A sp \in Range(input) : sp.end # None

\* the call just made moved both window edges strictly forward
MovedForward == current'[1] > current[1] /\ current'[2] > current[2]

\* C10: if no input span is open-ended, then after an advance_to that moves
\* the window strictly forward to a window with low > every span's start,
\* is_finished() is true.
C10_FinishedPastMaxStart ==
    [][(/\ NoOpenEnded
        /\ MovedForward
        /\ \A sp \in Range(input) : current'[1] > sp.start)
       => is_finished(Self)']_vars

\* C10 as amended: if no input span is open-ended, then after an advance_to
\* that moves the window strictly forward to a window with low > every
\* span's start and low > every span's end, is_finished() is true.
C10_FinishedPastMaxStartAndEnd ==
    [][(/\ NoOpenEnded
        /\ MovedForward
        /\ \A sp \in Range(input) : current'[1] > sp.start /\ current'[1] > sp.end[1])
       => is_finished(Self)']_vars

\* advance_to has run on a list of two closed spans, the window lies past
\* the starts and ends of both, and the cursor reports finished
C10_Witness ==
    /\ last_op = "advance_to"
    /\ Len(input) >= 2
    /\ NoOpenEnded
    /\ \A sp \in Range(input) : low_ > sp.start /\ low_ > sp.end[1]
    /\ is_finished(Self)

HasOpenEnded == \E sp \in Range(input) : sp.end = None

\* C11: once an open-ended input span has been admitted to active,
\* is_finished() is false in every later state, whatever windows with
\* low <= high follow (backward moves that evict the span included). Stated
\* for every state of a cursor whose input holds an open-ended span: the
\* states after one was admitted are among them.
C11_NeverFinishedWithOpenSpan ==
    HasOpenEnded => ~is_finished(Self)

\* advance_to has run and an open-ended span is in active; a backward move
\* from here evicts it and leaves active empty
C11_Witness ==
    /\ last_op = "advance_to"
    /\ \E sp \in Range(active) : sp.end = None
    /\ \E w \in Windows : w[2] < high_ /\
          \E c \in advance_to(Self, w[1], w[2]) : c.active = <<>>

\* C12: once is_finished() is true, every advance_to that moves forward
\* (new low >= low, new high >= high) leaves is_finished() true and active
\* empty.
C12_FinishedStaysFinished ==
    is_finished(Self) =>
        \A w \in Windows :
            (w[1] >= low_ /\ w[2] >= high_) =>
                \A c \in advance_to(Self, w[1], w[2]) : is_finished(c) /\ c.active = <<>>

\* advance_to has left a cursor over two spans finished, with the window
\* still able to move forward
C12_Witness ==
    /\ last_op = "advance_to"
    /\ Len(input) >= 2
    /\ is_finished(Self)
    /\ low_ < MaxTime

\* C13: is_finished() is true if and only if active is empty and no span
\* of the input has start > window.high.
C13_FinishedIff ==
    is_finished(Self) <=>
        (active = <<>> /\ ~\E sp \in Range(input) : sp.start > high_)

\* advance_to has run; active is empty but a span still starts after
\* window.high, so the cursor is not finished
C13_Witness ==
    /\ last_op = "advance_to"
    /\ active = <<>>
    /\ \E sp \in Range(input) : sp.start > high_
    /\ ~is_finished(Self)

\* C15: both ends are inclusive: an input span whose end equals window.low
\* (and whose start <= window.high) is in active, and so is one whose start
\* equals window.high (and whose end is absent or >= window.low).
C15_InclusiveEnds ==
    \A sp \in Range(input) :
        /\ (sp.end = Some(low_) /\ sp.start <= high_) => sp \in Range(active)
        /\ (sp.start = high_ /\ (sp.end = None \/ sp.end[1] >= low_)) => sp \in Range(active)

\* advance_to has run on a window with low < high; one active span ends
\* exactly at low and another starts exactly at high
C15_Witness ==
    /\ last_op = "advance_to"
    /\ low_ < high_
    /\ \E sp \in Range(active) : sp.end = Some(low_)
    /\ \E sp \in Range(active) : sp.start = high_ /\ sp.end # Some(low_)

\* C16: a cursor with no spans reports is_finished() and yields no active
\* ids, right after empty(t) (window (t, t)) or new with an empty list, and
\* after every advance_to.
C16_EmptyCursor ==
    input = <<>> =>
        /\ is_finished(Self)
        /\ active_ids(Self) = <<>>
        /\ last_op = "empty" => low_ = high_

\* advance_to has run on a cursor that has no spans
C16_Witness ==
    /\ last_op = "advance_to"
    /\ input = <<>>
    /\ low_ < high_

\* C19: active_ids() and active_spans() yield the same number of elements
\* and the i-th id is the id of the i-th span.
C19_IdsMatchSpans ==
    /\ Len(active_ids(Self)) = Len(active_spans(Self))
    /\ \A i \in 1 .. Len(active_spans(Self)) :
          active_ids(Self)[i] = active_spans(Self)[i].id

\* advance_to has run and two spans are active, the one with the larger id
\* first
C19_Witness ==
    /\ last_op = "advance_to"
    /\ Len(active) >= 2
    /\ active[1].id > active[2].id

\* C14: advance_to(low, high) with low > high fails fast instead of
\* completing and storing the inverted window: no cursor ever holds a window
\* with low > high.
C14_InvertedWindowRefused == low_ <= high_

\* C14 as amended: advance_to(low, high) with low > high does not fail: it
\* completes, stores the inverted window, and leaves in active only input
\* spans with start <= high and (end absent or end >= low).
C14_InvertedCallCompletes ==
    /\ \A lo, hi \in Time :
          lo > hi =>
              /\ advance_to(Self, lo, hi) # {}
              /\ \A c \in advance_to(Self, lo, hi) :
                    /\ current_of(c) = <<lo, hi>>
                    /\ \A sp \in Range(c.active) :
                          sp \in Range(input) /\ Overlaps(sp, lo, hi)
    /\ \A sp \in Range(active) : sp \in Range(input) /\ Overlaps(sp, low_, high_)

\* advance_to has stored an inverted window and left a span active
C14_Witness ==
    /\ last_op = "advance_to"
    /\ low_ > high_
    /\ active # <<>>

\* what a caller can observe of a cursor
Observed(c) ==
    [current |-> current_of(c),
     active_ids |-> active_ids(c),
     active_spans |-> active_spans(c),
     is_finished |-> is_finished(c)]

\* C17: two cursors built from the same span list and initial window and
\* driven by the same advance_to windows return the same results from
\* current(), active_ids(), active_spans() and is_finished() after every
\* step.
C17_Deterministic ==
    twin # NoCursor => Observed(twin) = Observed(Self)

\* both cursors have been advanced to a window at whose high edge two
\* spans start and at whose low edge two spans end (each binary search had
\* two matches to return), and two spans are active
C17_Witness ==
    /\ twin # NoCursor
    /\ last_op = "advance_to"
    /\ Cardinality({i \in 1 .. Len(spans_start) : spans_start[i].start = high_}) >= 2
    /\ Cardinality({i \in 1 .. Len(spans_end) : spans_end[i].end = Some(low_)}) >= 2
    /\ Len(active) >= 2

\* v is ascending by start
SortedByStart(v) == \A i, j \in 1 .. Len(v) : i < j => v[i].start <= v[j].start

\* v is ascending by end, absent ends behind every finite end
SortedByEnd(v) ==
    \A i, j \in 1 .. Len(v) :
        i < j => (v[j].end = None \/ (v[i].end # None /\ v[i].end[1] <= v[j].end[1]))

\* C18: spans_start is a permutation of the input ascending by start and
\* spans_end the same multiset ascending by end with absent ends last; no
\* advance_to changes either.
C18_SortedViewsFixed ==
    /\ [](/\ SameBag(spans_start, input) /\ SortedByStart(spans_start)
          /\ SameBag(spans_end, input) /\ SortedByEnd(spans_end))
    /\ [][spans_start' = spans_start /\ spans_end' = spans_end]_vars

\* advance_to has run on a cursor whose two views differ from the input
\* and from each other, the end-sorted one with an open-ended span last
C18_Witness ==
    /\ last_op = "advance_to"
    /\ Len(input) >= 2
    /\ spans_start # input
    /\ spans_end # spans_start
    /\ spans_end[Len(spans_end)].end = None
    /\ spans_end[1].end # None

\* C20: current(), active_ids(), active_spans() and is_finished() leave the
\* window, active, both sorted views and both indices unchanged, so the
\* same query made again returns the same result.
C20_QueriesChangeNothing ==
    [][last_op' = "query" =>
          /\ Self' = Self
          /\ \A q \in Queries : query(q, Self').ret = query(q, Self).ret]_vars

\* a query has been made on a cursor with two spans in active
C20_Witness ==
    /\ last_op = "query"
    /\ Len(active) >= 2

\* C21: current() returns the window most recently established: (low,
\* high) of the constructor call, (t, t) after empty(t), and (low, high) of
\* the latest advance_to(low, high), whatever low and high are.
C21_CurrentIsLatestWindow ==
    /\ \A t \in Time : current_of(empty(t)) = <<t, t>>
    /\ \A w \in Windows : \A c \in new(input, w[1], w[2]) : current_of(c) = w
    /\ \A lo, hi \in Time :
          \A c \in advance_to(Self, lo, hi) : current_of(c) = <<lo, hi>>
    /\ last_op = "empty" => low_ = high_

\* advance_to has stored a window with low > high over a cursor that has
\* spans, none of them active
C21_Witness ==
    /\ last_op = "advance_to"
    /\ low_ > high_
    /\ input # <<>>
    /\ active = <<>>

\* the span's interval [start, end] (end = +infinity when absent) and the
\* window [low, high] have a time point in common
SharePoint(sp, low, high) ==
    \E t \in Time :
        /\ sp.start <= t /\ (sp.end = None \/ t <= sp.end[1])
        /\ low <= t /\ t <= high

\* C22: for a span with start <= end (or no end) and a window with
\* low <= high, is_active(low, high) is true if and only if the span's
\* interval and the window share at least one time point.
C22_IsActiveIffSharePoint ==
    \A sp \in Range(input) :
        (sp.end = None \/ sp.start <= sp.end[1]) =>
            \A w \in Windows : is_active(sp, w[1], w[2]) <=> SharePoint(sp, w[1], w[2])

\* advance_to has run; a closed span touches the window in the single point
\* high = start and is active, and another closed span with start <= end
\* shares no point with the window and is not active
C22_Witness ==
    /\ last_op = "advance_to"
    /\ low_ < high_
    /\ \E sp \in Range(active) :
          sp.end # None /\ sp.start = high_ /\ is_active(sp, low_, high_)
    /\ \E sp \in Range(input) :
          /\ sp.end # None /\ sp.start <= sp.end[1]
          /\ ~is_active(sp, low_, high_) /\ ~SharePoint(sp, low_, high_)

Reverse(v) == [i \in 1 .. Len(v) |-> v[Len(v) + 1 - i]]

\* the spans of spans_start with old_high < start <= high, in that list's
\* order, if the high edge moved up; none otherwise
ForwardAdmitted(old_high, high) ==
    IF high > old_high
    THEN SelectSeq(spans_start, LAMBDA sp : old_high < sp.start /\ sp.start <= high)
    ELSE <<>>

\* the spans of spans_end with a finite end and low <= end < old_low, last
\* of that list first, if the low edge moved down; none otherwise
BackwardAdmitted(old_low, low) ==
    IF low < old_low
    THEN Reverse(SelectSeq(spans_end, LAMBDA sp :
             sp.end # None /\ low <= sp.end[1] /\ sp.end[1] < old_low))
    ELSE <<>>

\* C24: the forward pass of a call advance_to(low, high): when
\* high > old_high it appends to active exactly the spans of spans_start
\* with old_high < start <= high (those from the old next_start_idx up to
\* the first span with start > high), whatever their end; when
\* high <= old_high it appends nothing and only recomputes next_start_idx.
C24_ForwardPass ==
    [][\A c1 \in forward_pass([Self EXCEPT !.current = current'], high_, current'[2]) :
          /\ c1.active = active \o ForwardAdmitted(high_, current'[2])
          /\ c1.next_start_idx = FirstIndex(spans_start, LAMBDA sp : sp.start > current'[2])
          /\ current'[2] > high_ =>
                c1.active = active \o SubSeq(spans_start, next_start_idx + 1, c1.next_start_idx)
          /\ c1 = [Self EXCEPT !.current = current',
                               !.active = c1.active,
                               !.next_start_idx = c1.next_start_idx]]_vars

\* advance_to has run, and a forward move from here to some window admits
\* in its forward pass a span that ends before that window's low edge
C24_Witness ==
    /\ last_op = "advance_to"
    /\ \E w \in Windows :
          /\ w[2] > high_
          /\ \E sp \in Range(ForwardAdmitted(high_, w[2])) :
                sp.end # None /\ sp.end[1] < w[1] /\ sp.start <= sp.end[1]

\* C25: the backward pass of a call advance_to(low, high): when
\* low < old_low it appends to active exactly the spans of spans_end with a
\* finite end and low <= end < old_low (walking down from the old
\* next_end_idx to the first span with end < low), never an open-ended
\* span; when low >= old_low it appends nothing and only recomputes
\* next_end_idx.
C25_BackwardPass ==
    [][\A c1 \in forward_pass([Self EXCEPT !.current = current'], high_, current'[2]) :
          \A c2 \in backward_pass(c1, low_, current'[1]) :
              /\ c2.active = c1.active \o BackwardAdmitted(low_, current'[1])
              /\ c2.next_end_idx =
                    FirstIndex(spans_end, LAMBDA sp : sp.end = None \/ sp.end[1] >= current'[1])
              /\ current'[1] < low_ =>
                    c2.active = c1.active \o
                        Reverse(SubSeq(spans_end, c2.next_end_idx + 1, next_end_idx))
              /\ c2 = [c1 EXCEPT !.active = c2.active, !.next_end_idx = c2.next_end_idx]]_vars

\* advance_to has run on a cursor that holds an open-ended span, and a
\* backward move from here admits in its backward pass a span that starts
\* after the new window's high edge
C25_Witness ==
    /\ last_op = "advance_to"
    /\ HasOpenEnded
    /\ \E w \in Windows :
          /\ w[1] < low_
          /\ \E sp \in Range(BackwardAdmitted(low_, w[1])) :
                sp.start > w[2] /\ sp.start <= sp.end[1]

\* C26: when neither edge widens (high <= old_high and low >= old_low),
\* advance_to admits no span: active after the call is the sub-list of
\* active before the call made of the spans that still overlap the new
\* window.
C26_NoAdmissionWhenShrinking ==
    [][(current'[2] <= high_ /\ current'[1] >= low_) =>
          active' = SelectSeq(active, LAMBDA sp : Overlaps(sp, current'[1], current'[2]))]_vars

\* advance_to has left two spans active, and a call from here that narrows
\* the window evicts one of them and keeps the other
C26_Witness ==
    /\ last_op = "advance_to"
    /\ Len(active) >= 2
    /\ \E w \in Windows :
          /\ w[1] >= low_ /\ w[2] <= high_ /\ w # current
          /\ \E c \in advance_to(Self, w[1], w[2]) : Len(c.active) = 1

\* C27: new leaves active in ascending start order; each advance_to leaves
\* the spans that stay active in their previous relative order, then the
\* surviving forward-admitted spans in ascending start order, then the
\* surviving backward-admitted spans in descending end order; the eviction
\* removes exactly the spans failing start <= high and (end absent or
\* end >= low).
C27_ActiveOrder ==
    /\ [](last_op = "new" =>
             /\ SortedByStart(active)
             /\ active = SelectSeq(spans_start, LAMBDA sp : Overlaps(sp, low_, high_)))
    /\ [][/\ active' = SelectSeq(active \o ForwardAdmitted(high_, current'[2])
                                         \o BackwardAdmitted(low_, current'[1]),
                                  LAMBDA sp : Overlaps(sp, current'[1], current'[2]))
          /\ SortedByStart(ForwardAdmitted(high_, current'[2]))
          /\ SortedByEnd(Reverse(BackwardAdmitted(low_, current'[1])))]_vars

\* advance_to has left two spans active, the later-starting one in front of
\* the earlier-starting one
C27_Witness ==
    /\ last_op = "advance_to"
    /\ Len(active) >= 2
    /\ active[1].start > active[2].start

\* C28: a call advance_to(low, high) with low > high does not corrupt the
\* cursor: after any later advance_to with low <= high, an input span is in
\* active as often as in the input if it overlaps the window and not at all
\* otherwise. Stated for inputs whose spans have start <= end (or no
\* end), for which callers that keep low <= high get exactly this (C2).
C28_InvertedCallHarmless ==
    (WellFormed(input) /\ last_op = "advance_to" /\ low_ <= high_) =>
        \A sp \in Range(input) \cup Range(active) :
            Count(active, sp) = IF Overlaps(sp, low_, high_) THEN Count(input, sp) ELSE 0

\* C29: input spans whose end is earlier than their start are accepted, and
\* after new and after every advance_to with low <= high every span with
\* start <= high and end >= low is in active as often as in the input, and
\* no other span is.
C29_MalformedCountedOnce ==
    \A sp \in Range(input) \cup Range(active) :
        Count(active, sp) = IF Overlaps(sp, low_, high_) THEN Count(input, sp) ELSE 0

\* C30: after any sequence of advance_to calls with low <= high the
\* window, next_start_idx, next_end_idx and the multiset of active equal
\* those of Cursor::new(same spans, low, high).
C30_PathIndependent ==
    \A c \in new(input, low_, high_) :
        /\ c.current = current
        /\ c.next_start_idx = next_start_idx
        /\ c.next_end_idx = next_end_idx
        /\ SameBag(c.active, active)

\* C30 for inputs whose spans all have start <= end (or no end)
C30_PathIndependentWellFormed == WellFormed(input) => C30_PathIndependent

\* C31: for input spans with start <= end (or no end) and a window with
\* low <= high, is_finished() is true if and only if every input span has a
\* finite end strictly less than window.low.
C31_FinishedIffAllEnded ==
    WellFormed(input) =>
        (is_finished(Self) <=> \A sp \in Range(input) : sp.end # None /\ sp.end[1] < low_)

\* advance_to has moved the window back onto a list of two well-formed
\* closed spans, one of which ended before low while the other starts
\* after high: active is empty and the cursor is not finished
C31_Witness ==
    /\ last_op = "advance_to"
    /\ WellFormed(input)
    /\ NoOpenEnded
    /\ \E sp \in Range(input) : sp.end[1] < low_
    /\ \E sp \in Range(input) : sp.start > high_
    /\ active = <<>>
    /\ ~is_finished(Self)

\* C32: within one advance_to on a cursor with well-formed spans reached
\* through windows with low <= high, no span is pushed that is already in
\* active and none is pushed by both passes: the list before the eviction
\* holds no span more often than the input does, also when both edges widen
\* in the same call.
C32_NoDoublePush ==
    [][WellFormed(input) =>
          \A c1 \in forward_pass([Self EXCEPT !.current = current'], high_, current'[2]) :
              \A c2 \in backward_pass(c1, low_, current'[1]) :
                  /\ \A sp \in Range(c2.active) : Count(c2.active, sp) <= Count(input, sp)
                  /\ Range(ForwardAdmitted(high_, current'[2])) \cap Range(active) = {}
                  /\ Range(BackwardAdmitted(low_, current'[1])) \cap Range(active) = {}
                  /\ Range(ForwardAdmitted(high_, current'[2]))
                        \cap Range(BackwardAdmitted(low_, current'[1])) = {}]_vars

\* advance_to has run on a well-formed input; a call from here that widens
\* both edges admits one span in its forward pass and another in its
\* backward pass
C32_Witness ==
    /\ last_op = "advance_to"
    /\ WellFormed(input)
    /\ \E w \in Windows :
          /\ w[2] > high_ /\ w[1] < low_
          /\ ForwardAdmitted(high_, w[2]) # <<>>
          /\ BackwardAdmitted(low_, w[1]) # <<>>

\* the window's low edge lies past the end of every input span
PastEveryEnd == \A sp \in Range(input) : sp.end # None /\ low_ > sp.end[1]

\* C33: if no input span is open-ended and the driver keeps calling
\* advance_to with non-decreasing high and strictly increasing low, then
\* is_finished() eventually becomes true and stays true (the loop ends), and
\* it is true as soon as low exceeds the largest span end.
C33_DriverFinishes ==
    /\ NoOpenEnded ~> [](is_finished(Self) /\ ~ENABLED Drive)
    /\ []((last_op = "advance_to" /\ PastEveryEnd) => is_finished(Self))

\* C33 as amended: the driver's loop ends with is_finished() true; for
\* spans with start <= end it is true as soon as low exceeds the largest
\* span end, and in general once high has also reached every start.
C33_DriverFinishesWellFormed ==
    /\ NoOpenEnded ~> [](is_finished(Self) /\ ~ENABLED Drive)
    /\ []((last_op = "advance_to" /\ PastEveryEnd /\ WellFormed(input))
             => is_finished(Self))
    /\ []((last_op = "advance_to" /\ PastEveryEnd
               /\ \A sp \in Range(input) : sp.start <= high_)
             => is_finished(Self))

\* the driver has advanced a cursor over two closed spans, one of them
\* with its end before its start, to a window past every end and start,
\* and the cursor reports finished
C33_Witness ==
    /\ last_op = "advance_to"
    /\ Len(input) >= 2
    /\ PastEveryEnd
    /\ ~WellFormed(input)
    /\ is_finished(Self)

\* C34: in every reachable state 0 <= next_start_idx <= len(spans_start)
\* and 0 <= next_end_idx <= len(spans_end), and every element read of
\* advance_to and of the two resets uses an index in range, for every pair
\* of times (low > high included) and for an empty span list.
C34_IndexSafety ==
    /\ next_start_idx \in 0 .. Len(spans_start)
    /\ next_end_idx \in 0 .. Len(spans_end)
    /\ \A lo, hi \in Time :
          /\ advance_to_reads_start(Self, lo, hi) \subseteq 0 .. Len(spans_start) - 1
          /\ advance_to_reads_end(Self, lo, hi) \subseteq 0 .. Len(spans_end) - 1

\* advance_to has stored an inverted window and left next_end_idx at the
\* length of spans_end; a backward move from here reads the last element
C34_Witness ==
    /\ last_op = "advance_to"
    /\ low_ > high_
    /\ Len(spans_end) >= 2
    /\ next_end_idx = Len(spans_end)
    /\ \E lo, hi \in Time :
          lo < low_ /\ Len(spans_end) - 1 \in advance_to_reads_end(Self, lo, hi)

\* C35: every advance_to call returns, for every span list and every pair
\* of times: the forward walk makes at most len - next_start_idx steps, the
\* backward walk at most next_end_idx steps (each step moves the index by
\* one and pushes one span), and the tie-skipping loops of the two resets
\* stop within the bounds of their list.
C35_CallsTerminate ==
    \A lo, hi \in Time :
        LET c0 == [Self EXCEPT !.current = <<lo, hi>>]
            f == forward_walk(c0, hi)
            b == backward_walk(c0, lo)
        IN  /\ advance_to(Self, lo, hi) # {}
            /\ f.next_start_idx - next_start_idx \in 0 .. Len(spans_start) - next_start_idx
            /\ Len(f.active) - Len(active) = f.next_start_idx - next_start_idx
            /\ next_end_idx - b.next_end_idx \in 0 .. next_end_idx
            /\ Len(b.active) - Len(active) = next_end_idx - b.next_end_idx
            /\ \A r \in binary_search_by_key(spans_start, hi, "start") :
                  r.ok => skip_equal_starts(spans_start, r.i, hi) \in r.i + 1 .. Len(spans_start)
            /\ \A r \in binary_search_by_key(spans_end, Finite(lo), "end") :
                  r.ok => skip_equal_ends(spans_end, r.i, Finite(lo)) \in 0 .. r.i

\* advance_to has run on a cursor over two spans with the same start and
\* the same end; from here a forward walk and a backward walk each make two
\* steps, and each reset's loop has a run of two ties to skip
C35_Witness ==
    /\ last_op = "advance_to"
    /\ Len(input) >= 2
    /\ input[1].start = input[2].start
    /\ input[1].end = input[2].end
    /\ input[1].end # None
    /\ \E hi \in Time :
          forward_walk([Self EXCEPT !.current = <<low_, hi>>], hi).next_start_idx
              = next_start_idx + 2
    /\ \E lo \in Time :
          backward_walk([Self EXCEPT !.current = <<lo, high_>>], lo).next_end_idx
              = next_end_idx - 2

\* the active list of cursor c holds exactly the input spans overlapping
\* c's window
ActiveIsOverlapSet(c) ==
    /\ \A sp \in Range(input) :
          (sp \in Range(c.active)) <=> Overlaps(sp, c.current[1], c.current[2])
    /\ Range(c.active) \subseteq Range(input)

\* C36: two cursors built from the same span list are independent: under
\* any interleaving of advance_to calls on the two, a call on one leaves
\* the other's window, active list and indices unchanged, and each cursor's
\* active set is always the set of spans overlapping its own window.
C36_Independent ==
    /\ [](ActiveIsOverlapSet(Self) /\ ActiveIsOverlapSet(twin))
    /\ [][(twin' # twin => Self' = Self) /\ (Self' # Self => twin' = twin)]_vars

\* the two cursors have been moved to different windows and hold different
\* non-empty active lists
C36_Witness ==
    /\ last_op = "advance_to"
    /\ twin.current # current
    /\ twin.active # active
    /\ twin.active # <<>>
    /\ active # <<>>
    /\ twin.next_start_idx # next_start_idx

\* every MaybeInfinite<T> value over the model's times
MaybeInfiniteValues == {Finite(t) : t \in Time} \cup {Infinite}

\* a <= b in the derived order
MaybeInfinite_le(a, b) == MaybeInfinite_cmp(a, b) \in {"Less", "Equal"}

\* C37: MaybeInfinite is a total order in which Infinite is greater than
\* every Finite(v) and Finite values compare as their payloads; the
\* comparisons against a bare time t (==, >=) give what the comparison
\* against Finite(t) gives; an absent end is never equal to or less than a
\* time.
C37_MaybeInfiniteOrder ==
    /\ \A a, b \in MaybeInfiniteValues :
          /\ MaybeInfinite_le(a, b) \/ MaybeInfinite_le(b, a)
          /\ (MaybeInfinite_le(a, b) /\ MaybeInfinite_le(b, a)) => a = b
          /\ (MaybeInfinite_cmp(a, b) = "Equal") <=> (a = b)
          /\ (MaybeInfinite_cmp(a, b) = "Less") <=> (MaybeInfinite_cmp(b, a) = "Greater")
          /\ \A c \in MaybeInfiniteValues :
                (MaybeInfinite_le(a, b) /\ MaybeInfinite_le(b, c)) => MaybeInfinite_le(a, c)
    /\ \A t, u \in Time :
          /\ MaybeInfinite_cmp(Infinite, Finite(t)) = "Greater"
          /\ MaybeInfinite_cmp(Finite(t), Finite(u)) =
                (IF t < u THEN "Less" ELSE IF t = u THEN "Equal" ELSE "Greater")
    /\ \A x \in OptionTime, t \in Time :
          LET a == MaybeInfinite_from(x)
          IN  /\ MaybeInfinite_eq_T(a, t) <=> (MaybeInfinite_cmp(a, Finite(t)) = "Equal")
              /\ MaybeInfinite_ge_T(a, t) <=>
                    (MaybeInfinite_cmp(a, Finite(t)) \in {"Equal", "Greater"})
              /\ MaybeInfinite_partial_cmp_T(a, t) = MaybeInfinite_cmp(a, Finite(t))
              /\ x = None => (~MaybeInfinite_eq_T(a, t)
                              /\ MaybeInfinite_partial_cmp_T(a, t) = "Greater")
    /\ \A sp \in Range(input) :
          is_active(sp, low_, high_) <=>
              (sp.start <= high_
               /\ MaybeInfinite_cmp(MaybeInfinite_from(sp.end), Finite(low_))
                     \in {"Equal", "Greater"})

\* advance_to has run on a list with an open-ended span and a closed span
\* that ends exactly at window.low; both are active, the one by the
\* comparison of Infinite with a time, the other by equality with it
C37_Witness ==
    /\ last_op = "advance_to"
    /\ \E sp \in Range(active) : sp.end = None
    /\ \E sp \in Range(active) : sp.end = Some(low_)
    /\ spans_end[Len(spans_end)].end = None
    /\ low_ > 0

====
